---- MODULE Spec2Model ----
(***************************************************************************)
(* Model of task1-smart-text-analyzer/text_analyzer.py: analyze_text.      *)
(*                                                                         *)
(* A Python str is a sequence of one-character strings.  A value passed to *)
(* analyze_text is a record [type, val]: type is the Python type name and  *)
(* val the characters of a str (or of the literal of another value).       *)
(* average_word_length is kept in hundredths: 367 stands for 3.67.         *)
(* A dict is a function from its keys to its values.                       *)
(***************************************************************************)
EXTENDS Integers, Sequences, FiniteSets, TLC

VARIABLES text, pc, words, cleaned_words, word_count, total_length,
          average_word_length, max_length, longest_words, word_frequency,
          result, error

vars == <<text, pc, words, cleaned_words, word_count, total_length,
          average_word_length, max_length, longest_words, word_frequency,
          result, error>>

locals == <<words, cleaned_words, word_count, total_length,
            average_word_length, max_length, longest_words, word_frequency>>

----------------------------------------------------------------------------
(* Bounds of the input space.                                              *)

\* longest text of the exhaustive family
MaxLen == 5
\* most words of a text of the vocabulary family
MaxWords == 8

----------------------------------------------------------------------------
(* Characters.                                                             *)

\* the characters str.split() and str.strip() treat as whitespace (ASCII)
Whitespace == {" ", "\t", "\n", "\r", "\f"}

\* the argument of word.strip(...)
Punctuation == {".", ",", "!", "?", ";", ":", "\"", "(", ")", "[", "]", "{", "}"}

UpperCase == <<"A", "B", "C", "D", "E", "F", "G", "H", "I", "J", "K", "L", "M",
               "N", "O", "P", "Q", "R", "S", "T", "U", "V", "W", "X", "Y", "Z">>

LowerCase == <<"a", "b", "c", "d", "e", "f", "g", "h", "i", "j", "k", "l", "m",
               "n", "o", "p", "q", "r", "s", "t", "u", "v", "w", "x", "y", "z">>

UpperSet == {UpperCase[i] : i \in 1..Len(UpperCase)}

LowerChar(c) ==
    IF c \in UpperSet
    THEN LowerCase[CHOOSE i \in 1..Len(UpperCase) : UpperCase[i] = c]
    ELSE c

\* a forgotten .lower()
Lower_Identity(s) == s

\* str.lower()
Lower(s) == [i \in 1..Len(s) |-> LowerChar(s[i])]

----------------------------------------------------------------------------
(* str.strip and str.split.                                                *)

RECURSIVE LStripIndex(_, _, _)
\* the first index at or after i whose character is not in chars
LStripIndex(s, chars, i) ==
    IF i <= Len(s) /\ s[i] \in chars THEN LStripIndex(s, chars, i + 1) ELSE i

RECURSIVE RStripIndex(_, _, _, _)
\* the last index in i..j whose character is not in chars (i - 1 if none)
RStripIndex(s, chars, i, j) ==
    IF j >= i /\ s[j] \in chars THEN RStripIndex(s, chars, i, j - 1) ELSE j

\* s.strip(chars): both ends, never the middle
Strip(s, chars) ==
    LET i == LStripIndex(s, chars, 1)
        j == RStripIndex(s, chars, i, Len(s))
    IN  SubSeq(s, i, j)

\* not text or not text.strip()
IsBlank(s) == s = <<>> \/ Strip(s, Whitespace) = <<>>

RECURSIVE WordEnd(_, _)
\* the last index of the run of non-whitespace that holds index i
WordEnd(s, i) ==
    IF i < Len(s) /\ s[i + 1] \notin Whitespace THEN WordEnd(s, i + 1) ELSE i

RECURSIVE SplitFrom(_, _)
SplitFrom(s, i) ==
    IF i > Len(s) THEN <<>>
    ELSE IF s[i] \in Whitespace THEN SplitFrom(s, i + 1)
    ELSE LET j == WordEnd(s, i)
         IN  <<SubSeq(s, i, j)>> \o SplitFrom(s, j + 1)

\* text.split()
Split(s) == SplitFrom(s, 1)

\* a cleaning that keeps the punctuation
StripPunct_Keep(word) == word

\* a cleaning that also removes the punctuation inside the word
StripPunct_Everywhere(word) == SelectSeq(word, LAMBDA c : c \notin Punctuation)

\* word.strip('.,!?;:"()[]{}')
StripPunct(word) == Strip(word, Punctuation)

RECURSIVE CleanWords(_)
\* the loop over words: strip, keep the non-empty, lowercase
CleanWords(ws) ==
    IF ws = <<>> THEN <<>>
    ELSE LET cleaned == StripPunct(Head(ws))
         IN  (IF cleaned # <<>> THEN <<Lower(cleaned)>> ELSE <<>>)
             \o CleanWords(Tail(ws))

----------------------------------------------------------------------------
(* The statistics.                                                         *)

RECURSIVE SumLengths(_)
SumLengths(ws) ==
    IF ws = <<>> THEN 0 ELSE Len(Head(ws)) + SumLengths(Tail(ws))

\* a total over the distinct words only
TotalLength_Distinct(ws) ==
    LET S == {ws[i] : i \in 1..Len(ws)}
        RECURSIVE SumSet(_)
        SumSet(T) == IF T = {} THEN 0
                     ELSE LET w == CHOOSE x \in T : TRUE
                          IN  Len(w) + SumSet(T \ {w})
    IN  SumSet(S)

\* sum(len(word) for word in cleaned_words)
TotalLength(ws) == SumLengths(ws)

RECURSIVE Pow2Mod(_, _)
\* 2^k modulo m
Pow2Mod(k, m) == IF k = 0 THEN 1 % m ELSE (2 * Pow2Mod(k - 1, m)) % m

RECURSIVE GCD(_, _)
GCD(a, b) == IF b = 0 THEN a ELSE GCD(b, a % b)

RECURSIVE IsPow2(_)
IsPow2(n) == n = 1 \/ (n > 1 /\ n % 2 = 0 /\ IsPow2(n \div 2))

RECURSIVE Log2Floor(_, _)
\* the largest e with d * 2^e <= n, for n >= d > 0
Log2Floor(n, d) == IF 2 * d <= n THEN 1 + Log2Floor(n, 2 * d) ELSE 0

\* n / d is a binary fraction: the float division is exact (n, d small)
DivisionExact(n, d) == IsPow2(d \div GCD(n, d))

\* the double nearest to n / d lies above n / d (n >= d > 0, not exact):
\* the 53-bit significand is n * 2^(52 - e) / d rounded to nearest
FloatAbove(n, d) ==
    LET e == Log2Floor(n, d)
        r == ((n % d) * Pow2Mod(52 - e, d)) % d
    IN  2 * r > d

\* round(n / d, 2), in hundredths: the float quotient rounded to the nearest
\* hundredth, a quotient that is exactly halfway going to the even one
Round2(n, d) ==
    LET q == (100 * n) \div d
        r == (100 * n) % d
    IN  IF 2 * r < d THEN q
        ELSE IF 2 * r > d THEN q + 1
        ELSE IF DivisionExact(n, d) THEN (IF q % 2 = 0 THEN q ELSE q + 1)
        ELSE IF FloatAbove(n, d) THEN q + 1 ELSE q

RECURSIVE MaxLength(_)
\* max(len(word) for word in cleaned_words), cleaned_words not empty
MaxLength(ws) ==
    IF Len(ws) = 1 THEN Len(Head(ws))
    ELSE LET m == MaxLength(Tail(ws))
         IN  IF Len(Head(ws)) > m THEN Len(Head(ws)) ELSE m

\* [word for word in cleaned_words if len(word) == max_length]
OfLength(ws, m) == SelectSeq(ws, LAMBDA w : Len(w) = m)

\* no removal of duplicates
Dedupe_Keep(ws) == ws

RECURSIVE DedupeLast(_)
DedupeLast(ws) ==
    IF ws = <<>> THEN <<>>
    ELSE IF \E i \in 2..Len(ws) : ws[i] = Head(ws) THEN DedupeLast(Tail(ws))
    ELSE <<Head(ws)>> \o DedupeLast(Tail(ws))

\* a removal of duplicates that keeps the last occurrence of each word
Dedupe_KeepLast(ws) == DedupeLast(ws)

RECURSIVE DedupeFirst(_, _)
DedupeFirst(ws, seen) ==
    IF ws = <<>> THEN <<>>
    ELSE IF Head(ws) \in seen THEN DedupeFirst(Tail(ws), seen)
    ELSE <<Head(ws)>> \o DedupeFirst(Tail(ws), seen \cup {Head(ws)})

\* list(dict.fromkeys(longest_words)): first occurrences, in order
Dedupe(ws) == DedupeFirst(ws, {})

\* word_frequency[word] = 1
FreqStep_One(freq, word) ==
    IF word \in DOMAIN freq THEN freq ELSE freq @@ (word :> 1)

\* word_frequency[word] = word_frequency.get(word, 1) + 1
FreqStep_OffByOne(freq, word) ==
    IF word \in DOMAIN freq THEN [freq EXCEPT ![word] = @ + 1]
    ELSE freq @@ (word :> 2)

\* word_frequency[word] = word_frequency.get(word, 0) + 1
FreqStep(freq, word) ==
    IF word \in DOMAIN freq THEN [freq EXCEPT ![word] = @ + 1]
    ELSE freq @@ (word :> 1)

\* the empty dict
EmptyDict == [w \in {} |-> 0]

RECURSIVE CountWords(_, _)
\* the loop over cleaned_words that fills word_frequency
CountWords(freq, ws) ==
    IF ws = <<>> THEN freq ELSE CountWords(FreqStep(freq, Head(ws)), Tail(ws))

----------------------------------------------------------------------------
(* The inputs.                                                             *)

Str(s) == [type |-> "str", val |-> s]

\* analyze_text(None), analyze_text(123) of test_error_cases, and a bytes
NoneValue == [type |-> "NoneType", val |-> <<>>]
IntValue == [type |-> "int", val |-> <<"1", "2", "3">>]
BytesValue == [type |-> "bytes", val |-> <<"a", " ", "b">>]

NonStrings == {NoneValue, IntValue, BytesValue}

\* the texts of the tests and of the example of the module
ScenarioA == <<"T", "h", "e", " ", "q", "u", "i", "c", "k", " ", "b", "r", "o", "w", "n", " ", "f", "o", "x", " ", "j", "u", "m", "p", "s", " ", "o", "v", "e", "r", " ", "t", "h", "e", " ", "l", "a", "z", "y", " ", "d", "o", "g", " ", "t", "h", "e", " ", "f", "o", "x">>
ScenarioB == <<"c", "a", "t", " ", "d", "o", "g", " ", "b", "a", "t">>
ScenarioC == <<"H", "e", "l", "l", "o", ",", " ", "w", "o", "r", "l", "d", "!", " ", "H", "o", "w", " ", "a", "r", "e", " ", "y", "o", "u", "?">>
CaseFolding == <<"H", "e", "l", "l", "o", " ", "h", "e", "l", "l", "o", " ", "H", "E", "L", "L", "O">>
TestCaseInsensitive == <<"H", "e", "l", "l", "o", " ", "h", "e", "l", "l", "o", " ", "H", "E", "L", "L", "O", " ", "w", "o", "r", "l", "d", " ", "W", "o", "r", "l", "d">>
TestSingleWord == <<"h", "e", "l", "l", "o">>
ScenarioF == <<".", ".", ".">>
\* every whitespace and punctuation character, at the ends and inside words
MixedText == <<" ", " ", "D", "o", "n", "'", "t", "\t", "s", "t", "o", "p", ".", "i", "t", "!", "\n", "(", "o", "k", ")", "\r", "[", "x", "]", "\f", "{", "Y", "}", ";", " ", "\"", "q", ":", "\"", "?", ",">>
PunctOnly == <<"(", " ", ")", " ", "[", "]", " ", "{", "}", "!", "?", ";", ":", "\"", ",", ".", " ", "\t", "\n">>

ScenarioTexts == {ScenarioA, ScenarioB, ScenarioC, CaseFolding,
                  TestCaseInsensitive, TestSingleWord, ScenarioF, MixedText,
                  PunctOnly}

\* every text of at most MaxLen characters over a letter, a capital, a
\* punctuation character, an apostrophe and a space
Alphabet == {"a", "B", ".", "'", " "}
ShortTexts == UNION {[1..n -> Alphabet] : n \in 0..MaxLen}

\* every text of at most MaxWords words of the vocabulary, space-separated
Vocabulary == {<<"a">>, <<"B", "b", ".">>}

RECURSIVE Join(_)
Join(ws) ==
    IF Len(ws) = 1 THEN Head(ws) ELSE Head(ws) \o <<" ">> \o Join(Tail(ws))

VocabularyTexts ==
    {Join(ws) : ws \in UNION {[1..n -> Vocabulary] : n \in 1..MaxWords}}

Inputs == {Str(s) : s \in ShortTexts \cup VocabularyTexts \cup ScenarioTexts}
          \cup NonStrings

----------------------------------------------------------------------------
(* analyze_text(text), statement by statement.                             *)

NoResult == [word_count |-> 0, average_word_length |-> 0,
             longest_words |-> <<>>, word_frequency |-> EmptyDict]

Init ==
    /\ text \in Inputs
    /\ pc = "type_check"
    /\ words = <<>>
    /\ cleaned_words = <<>>
    /\ word_count = 0
    /\ total_length = 0
    /\ average_word_length = 0
    /\ max_length = 0
    /\ longest_words = <<>>
    /\ word_frequency = EmptyDict
    /\ result = NoResult
    /\ error = ""

\* text is not None
IsStr_NotNone(v) == v.type # "NoneType"

\* isinstance(text, str)
IsStr(v) == v.type = "str"

Raise(kind) ==
    /\ pc' = "raised"
    /\ error' = kind

\* if not isinstance(text, str): raise TypeError
CheckType ==
    /\ pc = "type_check"
    /\ IF ~IsStr(text)
       THEN Raise("TypeError")
       ELSE pc' = "blank_check" /\ error' = error
    /\ UNCHANGED <<text, locals, result>>

\* if not text or not text.strip(): raise ValueError
CheckBlank ==
    /\ pc = "blank_check"
    /\ IF IsBlank(text.val)
       THEN Raise("ValueError")
       ELSE pc' = "split" /\ error' = error
    /\ UNCHANGED <<text, locals, result>>

\* words = text.split()
SplitText ==
    /\ pc = "split"
    /\ words' = Split(text.val)
    /\ pc' = "clean"
    /\ UNCHANGED <<text, cleaned_words, word_count, total_length,
                   average_word_length, max_length, longest_words,
                   word_frequency, result, error>>

\* cleaned_words = []; for word in words: ...
Clean ==
    /\ pc = "clean"
    /\ cleaned_words' = CleanWords(words)
    /\ pc' = "check_cleaned"
    /\ UNCHANGED <<text, words, word_count, total_length,
                   average_word_length, max_length, longest_words,
                   word_frequency, result, error>>

\* if not cleaned_words: raise ValueError
CheckCleaned ==
    /\ pc = "check_cleaned"
    /\ IF cleaned_words = <<>>
       THEN Raise("ValueError")
       ELSE pc' = "count" /\ error' = error
    /\ UNCHANGED <<text, locals, result>>

\* word_count = len(cleaned_words)
Count ==
    /\ pc = "count"
    /\ word_count' = Len(cleaned_words)
    /\ pc' = "average"
    /\ UNCHANGED <<text, words, cleaned_words, total_length,
                   average_word_length, max_length, longest_words,
                   word_frequency, result, error>>

\* total_length = sum(...); average_word_length = round(..., 2)
Average ==
    /\ pc = "average"
    /\ total_length' = TotalLength(cleaned_words)
    /\ average_word_length' = Round2(total_length', word_count)
    /\ pc' = "longest"
    /\ UNCHANGED <<text, words, cleaned_words, word_count, max_length,
                   longest_words, word_frequency, result, error>>

\* max_length = max(...); longest_words = [...]; list(dict.fromkeys(...))
Longest ==
    /\ pc = "longest"
    /\ max_length' = MaxLength(cleaned_words)
    /\ longest_words' = Dedupe(OfLength(cleaned_words, max_length'))
    /\ pc' = "frequency"
    /\ UNCHANGED <<text, words, cleaned_words, word_count, total_length,
                   average_word_length, word_frequency, result, error>>

\* word_frequency = {}; for word in cleaned_words: ...
Frequency ==
    /\ pc = "frequency"
    /\ word_frequency' = CountWords(EmptyDict, cleaned_words)
    /\ pc' = "return"
    /\ UNCHANGED <<text, words, cleaned_words, word_count, total_length,
                   average_word_length, max_length, longest_words, result,
                   error>>

\* return {...}
Return ==
    /\ pc = "return"
    /\ result' = [word_count |-> word_count,
                  average_word_length |-> average_word_length,
                  longest_words |-> longest_words,
                  word_frequency |-> word_frequency]
    /\ pc' = "returned"
    /\ UNCHANGED <<text, locals, error>>

Next ==
    \/ CheckType
    \/ CheckBlank
    \/ SplitText
    \/ Clean
    \/ CheckCleaned
    \/ Count
    \/ Average
    \/ Longest
    \/ Frequency
    \/ Return

Spec == Init /\ [][Next]_vars

----------------------------------------------------------------------------
(* What the claims speak of, stated without the operators above.           *)

Returned == pc = "returned"
Terminated == pc \in {"returned", "raised"}
\* the statements after the cleaning loop have been reached
AfterClean == pc \in {"check_cleaned", "count", "average", "longest",
                      "frequency", "return", "returned"}

Range(s) == {s[i] : i \in 1..Len(s)}
NoDuplicates(s) == \A i, j \in 1..Len(s) : s[i] = s[j] => i = j
FirstIndex(s, w) == CHOOSE i \in 1..Len(s) : s[i] = w /\ \A j \in 1..(i - 1) : s[j] # w
Occurrences(s, w) == Cardinality({i \in 1..Len(s) : s[i] = w})
SetMin(S) == CHOOSE x \in S : \A y \in S : x <= y
SetMax(S) == CHOOSE x \in S : \A y \in S : x >= y

\* the punctuation set as the specification lists it
ListedPunctuation == {".", ",", "!", "?", ";", ":", "\"", "(", ")", "[", "]", "{", "}"}

\* where the whitespace-delimited tokens of s start, and where each ends
TokenStarts(s) ==
    {i \in 1..Len(s) : s[i] \notin Whitespace /\ (i = 1 \/ s[i - 1] \in Whitespace)}
TokenEnd(s, i) ==
    SetMin({j \in i..Len(s) : j = Len(s) \/ s[j + 1] \in Whitespace})
NthStart(s, n) ==
    CHOOSE i \in TokenStarts(s) : Cardinality({k \in TokenStarts(s) : k < i}) = n - 1
RawTokens(s) ==
    [n \in 1..Cardinality(TokenStarts(s)) |->
        SubSeq(s, NthStart(s, n), TokenEnd(s, NthStart(s, n)))]

\* a token without its leading and trailing run of punctuation, lowercased
Trimmed(tok) ==
    LET keep == {k \in 1..Len(tok) : tok[k] \notin ListedPunctuation}
    IN  IF keep = {} THEN <<>>
        ELSE [k \in 1..(SetMax(keep) - SetMin(keep) + 1) |->
                 LowerChar(tok[SetMin(keep) + k - 1])]

\* the cleaned token list of s
CleanedTokens(s) ==
    LET raw == RawTokens(s)
    IN  SelectSeq([n \in 1..Len(raw) |-> Trimmed(raw[n])], LAMBDA t : t # <<>>)

MaxTokenLength(ts) == SetMax({Len(ts[i]) : i \in 1..Len(ts)})

RECURSIVE SumValues(_)
SumValues(f) ==
    IF DOMAIN f = {} THEN 0
    ELSE LET k == CHOOSE x \in DOMAIN f : TRUE
         IN  f[k] + SumValues([x \in DOMAIN f \ {k} |-> f[x]])

RECURSIVE SumKeyLengths(_)
\* the sum over the keys of f of the key's length times its count
SumKeyLengths(f) ==
    IF DOMAIN f = {} THEN 0
    ELSE LET k == CHOOSE x \in DOMAIN f : TRUE
         IN  Len(k) * f[k] + SumKeyLengths([x \in DOMAIN f \ {k} |-> f[x]])

Abs(n) == IF n < 0 THEN -n ELSE n

----------------------------------------------------------------------------
(* The claims.                                                             *)

\* C1: whenever analyze_text returns a result, the values of word_frequency
\* sum to word_count.
C1_FrequencySumsToWordCount ==
    Returned => SumValues(result.word_frequency) = result.word_count

\* a result with several keys, one of them counted more than once
C1_Witness ==
    /\ Returned
    /\ Cardinality(DOMAIN result.word_frequency) >= 2
    /\ \E k \in DOMAIN result.word_frequency : result.word_frequency[k] >= 2

\* C2 as stated: on "The quick brown fox jumps over the lazy dog the fox"
\* word_count is 11, longest_words includes quick, brown and jumps,
\* word_frequency["the"] is 2 and word_frequency["fox"] is 2.
C2_Original ==
    (Returned /\ text = Str(ScenarioA)) =>
        /\ result.word_count = 11
        /\ {<<"q", "u", "i", "c", "k">>, <<"b", "r", "o", "w", "n">>,
            <<"j", "u", "m", "p", "s">>} \subseteq Range(result.longest_words)
        /\ <<"t", "h", "e">> \in DOMAIN result.word_frequency
        /\ result.word_frequency[<<"t", "h", "e">>] = 2
        /\ <<"f", "o", "x">> \in DOMAIN result.word_frequency
        /\ result.word_frequency[<<"f", "o", "x">>] = 2

\* C2, amended: on that input word_count is 11, longest_words includes
\* quick, brown and jumps, word_frequency["the"] is 3 (The, the, the) and
\* word_frequency["fox"] is 2.
C2_ScenarioA ==
    (Returned /\ text = Str(ScenarioA)) =>
        /\ result.word_count = 11
        /\ {<<"q", "u", "i", "c", "k">>, <<"b", "r", "o", "w", "n">>,
            <<"j", "u", "m", "p", "s">>} \subseteq Range(result.longest_words)
        /\ <<"t", "h", "e">> \in DOMAIN result.word_frequency
        /\ result.word_frequency[<<"t", "h", "e">>] = 3
        /\ <<"f", "o", "x">> \in DOMAIN result.word_frequency
        /\ result.word_frequency[<<"f", "o", "x">>] = 2

C2_Witness == Returned /\ text = Str(ScenarioA)

\* C3: a string input yields a result exactly when one of its
\* whitespace-delimited tokens holds a character outside the listed
\* punctuation; every other string input raises ValueError with no result.
C3_ResultIffValidToken ==
    (Terminated /\ text.type = "str") =>
        IF \E i \in TokenStarts(text.val) :
              \E k \in i..TokenEnd(text.val, i) : text.val[k] \notin ListedPunctuation
        THEN pc = "returned" /\ error = ""
        ELSE pc = "raised" /\ error = "ValueError" /\ result = NoResult

\* a text of punctuation tokens only has raised ValueError
C3_Witness ==
    /\ pc = "raised"
    /\ error = "ValueError"
    /\ text.type = "str"
    /\ TokenStarts(text.val) # {}

\* C4: an input that is not a string raises TypeError before the blankness
\* check and the tokenization: it never yields ValueError or a result.
C4_NonStringRaisesTypeError ==
    (text.type # "str") =>
        /\ pc \in {"type_check", "raised"}
        /\ pc = "raised" => error = "TypeError"
        /\ pc = "type_check" => error = ""
        /\ words = <<>> /\ cleaned_words = <<>>
        /\ result = NoResult

\* analyze_text(123) has raised TypeError
C4_Witness == pc = "raised" /\ error = "TypeError" /\ text = IntValue

\* C5: in a result longest_words is not empty, has no duplicate, and each of
\* its elements is as long as the longest cleaned token of the input.
C5_LongestWordsShape ==
    Returned =>
        /\ result.longest_words # <<>>
        /\ NoDuplicates(result.longest_words)
        /\ \A i \in 1..Len(result.longest_words) :
              Len(result.longest_words[i]) = MaxTokenLength(CleanedTokens(text.val))

\* a longest token occurs twice and a shorter token exists
C5_Witness ==
    /\ Returned
    /\ \E i, j \in 1..Len(cleaned_words) :
          i < j /\ cleaned_words[i] = cleaned_words[j]
          /\ Len(cleaned_words[i]) = max_length
    /\ \E i \in 1..Len(cleaned_words) : Len(cleaned_words[i]) < max_length

\* C6: in a result longest_words lists every distinct cleaned token of
\* maximum length exactly once, in the order of first occurrence in the
\* input; "cat dog bat" gives [cat, dog, bat].
C6_LongestWordsOrder ==
    Returned =>
        LET ts == CleanedTokens(text.val)
            lw == result.longest_words
        IN  /\ Range(lw) = {w \in Range(ts) : Len(w) = MaxTokenLength(ts)}
            /\ NoDuplicates(lw)
            /\ \A i, j \in 1..Len(lw) :
                  i < j => FirstIndex(ts, lw[i]) < FirstIndex(ts, lw[j])
            /\ text = Str(ScenarioB) =>
                  lw = <<(<<"c", "a", "t">>), (<<"d", "o", "g">>), (<<"b", "a", "t">>)>>

\* the first longest word occurs again after the second one
C6_Witness ==
    /\ Returned
    /\ Len(result.longest_words) >= 2
    /\ \E i, j, k \in 1..Len(cleaned_words) :
          /\ i < j /\ j < k
          /\ cleaned_words[i] = result.longest_words[1]
          /\ cleaned_words[j] = result.longest_words[2]
          /\ cleaned_words[k] = result.longest_words[1]

\* C7: in a result average_word_length is round(total_chars / word_count, 2)
\* with total_chars re-derived from word_frequency as the sum of key length
\* times count, and it is a hundredth nearest to total_chars / word_count.
C7_AverageFromFrequency ==
    Returned =>
        LET total_chars == SumKeyLengths(result.word_frequency)
        IN  /\ result.average_word_length = Round2(total_chars, result.word_count)
            /\ 2 * Abs(result.average_word_length * result.word_count
                       - 100 * total_chars) <= result.word_count

\* a quotient exactly halfway between two hundredths, with a repeated word
C7_Witness ==
    /\ Returned
    /\ 2 * ((100 * total_length) % word_count) = word_count
    /\ \E k \in DOMAIN result.word_frequency : result.word_frequency[k] >= 2

\* C8: cleaned_words is the whitespace-split tokens, each without its
\* leading and trailing punctuation run (the inside kept), lowercased, the
\* empty ones dropped, in order; word_count is its length; "Hello, world!
\* How are you?" gives hello, world, how, are, you and word_count 5.
C8_CleanedTokenList ==
    /\ (AfterClean /\ text.type = "str") =>
          cleaned_words = CleanedTokens(text.val)
    /\ Returned => result.word_count = Len(CleanedTokens(text.val))
    /\ (AfterClean /\ text = Str(ScenarioC)) =>
          cleaned_words = <<(<<"h", "e", "l", "l", "o">>), (<<"w", "o", "r", "l", "d">>),
                            (<<"h", "o", "w">>), (<<"a", "r", "e">>), (<<"y", "o", "u">>)>>
    /\ (Returned /\ text = Str(ScenarioC)) => result.word_count = 5

\* a token was dropped and a kept one holds punctuation and an apostrophe inside
C8_Witness ==
    /\ Returned
    /\ Len(cleaned_words) < Len(words)
    /\ \E i \in 1..Len(cleaned_words) :
          /\ \E k \in 1..Len(cleaned_words[i]) : cleaned_words[i][k] \in ListedPunctuation
          /\ \E k \in 1..Len(cleaned_words[i]) : cleaned_words[i][k] = "'"

\* C9: in a result the keys of word_frequency are the distinct cleaned
\* lowercased tokens and each value is the token's number of occurrences;
\* "Hello hello HELLO" gives {hello: 3}.
C9_FrequencyCounts ==
    Returned =>
        LET ts == CleanedTokens(text.val)
            wf == result.word_frequency
        IN  /\ DOMAIN wf = Range(ts)
            /\ \A k \in DOMAIN wf : wf[k] = Occurrences(ts, k)
            /\ \A k \in DOMAIN wf : \A i \in 1..Len(k) : k[i] \notin UpperSet
            /\ text = Str(CaseFolding) =>
                  /\ DOMAIN wf = {<<"h", "e", "l", "l", "o">>}
                  /\ wf[<<"h", "e", "l", "l", "o">>] = 3

C9_Witness == Returned /\ text = Str(CaseFolding) /\ Len(words) = 3

====
